---- MODULE Spec2Model ----
(***************************************************************************)
(* The record store of the Library Inventory system and its CRUD contract. *)
(*                                                                         *)
(* The repository holds three variants of the store:                       *)
(*   "file"      backend.py lines 1-188: a Flask app whose collection is   *)
(*               the JSON file media.json, re-read on every request;       *)
(*   "mock"      mock_backend.py: an in-memory list _media with the        *)
(*               counter _next_id;                                         *)
(*   "embedded"  backend.py lines 256-323: the in-memory list store of     *)
(*               _create_mock_app.                                         *)
(* The variable program says which of the three is running; it is chosen   *)
(* in Init and never changes.                                              *)
(*                                                                         *)
(* Strings are sequences of one-letter strings so that lower() and strip() *)
(* are computed, not assumed.  A uuid4 token is a natural number taken     *)
(* from the counter nextUuid: a token is never produced twice.             *)
(*                                                                         *)
(* Spec runs every handler as one step.  SpecThreaded runs the handlers of *)
(* backend.py with load_media and save_media as separate steps; requests   *)
(* holds the handlers that are in flight and the local dict of each.       *)
(* SpecClient adds the Tkinter client of backend.py: gui holds the status   *)
(* line, the last message box and the media_data of LibraryGUI.             *)
(***************************************************************************)
EXTENDS Naturals, Sequences, FiniteSets, TLC

VARIABLES program, file, nextUuid, _media, _next_id, store, last, requests, gui

vars == <<program, file, nextUuid, _media, _next_id, store, last, requests, gui>>

----------------------------------------------------------------------------
(* Bounds of the model *)

\* uuid4 tokens are 1..MaxUuid; an action that needs a token is disabled
\* when they are used up
MaxUuid == 3

\* mock_backend.py's create is disabled once _next_id exceeds MaxNextId
MaxNextId == 6

\* the threaded server handles at most MaxRequests requests in a behaviour
MaxRequests == 3

----------------------------------------------------------------------------
(* Strings *)

UpperChars == <<"A","B","C","D","E","F","G","H","I","J","K","L","M",
                "N","O","P","Q","R","S","T","U","V","W","X","Y","Z">>

LowerChars == <<"a","b","c","d","e","f","g","h","i","j","k","l","m",
                "n","o","p","q","r","s","t","u","v","w","x","y","z">>

\* one character of str.lower()
lower_char(c) ==
    IF \E i \in 1..Len(UpperChars) : UpperChars[i] = c
    THEN LowerChars[CHOOSE i \in 1..Len(UpperChars) : UpperChars[i] = c]
    ELSE c

\* str.lower()
lower(s) == [i \in 1..Len(s) |-> lower_char(s[i])]

\* JSON null / Python None: a value no character string equals
None == <<"null">>

\* str(value): a string is itself, None is the four letters "None"
str(v) == IF v = None THEN <<"N","o","n","e">> ELSE v

\* the strings the requests and the sample data are built from
EmptyStr == <<>>
Blank == <<" ">>
Dune == <<"D","u","n","e">>
dune == <<"d","u","n","e">>
Herbert == <<"H","e","r","b","e","r","t">>
Y1965 == <<"1","9","6","5">>
Book == <<"B","o","o","k">>
book == <<"b","o","o","k">>
Film == <<"F","i","l","m">>
Magazine == <<"M","a","g","a","z","i","n","e">>
none == <<"n","o","n","e">>

----------------------------------------------------------------------------
(* Python dict: insertion-ordered, one entry per key *)

EmptyDict == <<>>

dict_keys(d) == {d[i].key : i \in 1..Len(d)}

dict_has(d, k) == k \in dict_keys(d)

\* d[k], for k in d
dict_get(d, k) == d[CHOOSE i \in 1..Len(d) : d[i].key = k].value

\* d[k] = v: replaces the value in place, or appends a new entry
dict_set(d, k, v) ==
    IF dict_has(d, k)
    THEN [i \in 1..Len(d) |-> IF d[i].key = k THEN [key |-> k, value |-> v] ELSE d[i]]
    ELSE Append(d, [key |-> k, value |-> v])

\* del d[k]
dict_del(d, k) == SelectSeq(d, LAMBDA e : e.key # k)

----------------------------------------------------------------------------
(* Inputs *)

Fields == {"name", "author", "publication_date", "category"}

\* a JSON body holding the fields S, with the given name and category
Payload(S, name, category) ==
    [f \in S |-> CASE f = "name" -> name
                  [] f = "author" -> Herbert
                  [] f = "publication_date" -> Y1965
                  [] f = "category" -> category]

\* JSON bodies of POST /media/create: complete ones (among them an empty and
\* a blank name), the ones lacking one field, a name alone, and {}
CreatePayloads ==
    {Payload(Fields, Dune, Book), Payload(Fields, Dune, book),
     Payload(Fields, EmptyStr, Book), Payload(Fields, Blank, Book)}
    \cup {Payload(Fields \ {f}, Dune, Book) : f \in Fields}
    \cup {Payload({"name"}, Dune, Book), Payload({}, Dune, Book)}

\* JSON bodies of mock_backend.py's POST /media/create: a complete one, a
\* name alone (the other fields are stored as None), an empty name, and {}
MockPayloads ==
    {Payload(Fields, Dune, Book), Payload({"name"}, Dune, Book),
     Payload(Fields, EmptyStr, Book), Payload({}, Dune, Book)}

\* <category> of GET /media/category/<category>
CategoryQueries == {Book, book, Film, Magazine, none}

\* <name> of GET /media/search/<name>
SearchQueries == {Dune, dune, Herbert}

\* <name> of the search route of the two mocks: a word in another case, the
\* end of two names, a whole name, and an author
SubstringQueries == {<<"T","H","E">>, <<"i","o","n">>, Dune, Herbert}

\* <name> of the search route of the embedded mock: the same, and the last
\* letter of a name followed by the first letter of an author
StoreQueries == SubstringQueries \cup {<<"e","H">>}

\* <item_id> of the file-backed routes: a token, issued or not
ItemIds == 1..MaxUuid

\* <int:item_id> of mock_backend.py's delete route
MockItemIds == 0..MaxNextId

----------------------------------------------------------------------------
(* backend.py lines 1-188: the file-backed store *)

\* the bytes of media.json: a JSON document, or text that is no JSON
EmptyText == [json |-> FALSE, value |-> EmptyDict]

json_dump(media_dict) == [json |-> TRUE, value |-> media_dict]

\* json.load raises JSONDecodeError on text that is no JSON document
json_load(text) ==
    IF text.json THEN [ok |-> TRUE, value |-> text.value]
    ELSE [ok |-> FALSE, value |-> EmptyDict]

NoFile == [exists |-> FALSE, text |-> EmptyText]

\* a mapping held in memory since the import, never read again
load_media_once == [ok |-> TRUE, value |-> EmptyDict]

load_media ==
    IF ~file.exists THEN [ok |-> TRUE, value |-> EmptyDict]
    ELSE json_load(file.text)

\* save_media with the write left out
save_media_skipped(media_dict) == file

\* the file that save_media(media_dict) leaves
save_media(media_dict) == [exists |-> TRUE, text |-> json_dump(media_dict)]

Response(op, arg, status, body) ==
    [op |-> op, arg |-> arg, status |-> status, body |-> body]

\* an exception escaping a Flask view
InternalServerError(op, arg) == Response(op, arg, 500, "Internal Server Error")

NoArg == "-"

MemoryUnchanged == UNCHANGED <<program, _media, _next_id, store, requests, gui>>

\* get_all_media answering with the first record only
all_media_head ==
    LET media == load_media IN
    IF media.ok
    THEN Response("list_all", NoArg, 200,
                  IF media.value = <<>> THEN <<>> ELSE <<Head(media.value)>>)
    ELSE InternalServerError("list_all", NoArg)

\* jsonify(load_media())
all_media ==
    LET media == load_media IN
    IF media.ok THEN Response("list_all", NoArg, 200, media.value)
    ELSE InternalServerError("list_all", NoArg)

get_all_media ==
    /\ program = "file"
    /\ last' = all_media
    /\ UNCHANGED <<file, nextUuid>>
    /\ MemoryUnchanged

\* the dict comprehension of get_media_by_category
category_filter(media, category) ==
    SelectSeq(media, LAMBDA e : lower(str(e.value.category)) = lower(category))

media_in_category(category) ==
    LET media == load_media IN
    IF media.ok
    THEN Response("category", category, 200, category_filter(media.value, category))
    ELSE InternalServerError("category", category)

get_media_by_category(category) ==
    /\ program = "file"
    /\ last' = media_in_category(category)
    /\ UNCHANGED <<file, nextUuid>>
    /\ MemoryUnchanged

\* the loop of search_media run from the end of the dict
first_match_reversed(media, name) ==
    IF \E i \in 1..Len(media) : lower(str(media[i].value.name)) = lower(name)
    THEN CHOOSE i \in 1..Len(media) :
            /\ lower(str(media[i].value.name)) = lower(name)
            /\ \A j \in (i+1)..Len(media) : lower(str(media[j].value.name)) # lower(name)
    ELSE 0

\* the entry at which the loop of search_media returns, 0 when it runs out
first_match(media, name) ==
    IF \E i \in 1..Len(media) : lower(str(media[i].value.name)) = lower(name)
    THEN CHOOSE i \in 1..Len(media) :
            /\ lower(str(media[i].value.name)) = lower(name)
            /\ \A j \in 1..(i-1) : lower(str(media[j].value.name)) # lower(name)
    ELSE 0

media_found(name) ==
    LET media == load_media IN
    IF ~media.ok THEN InternalServerError("search", name)
    ELSE IF first_match(media.value, name) # 0
    THEN Response("search", name, 200, <<media.value[first_match(media.value, name)]>>)
    ELSE Response("search", name, 404, [error |-> "Media not found"])

search_media(name) ==
    /\ program = "file"
    /\ last' = media_found(name)
    /\ UNCHANGED <<file, nextUuid>>
    /\ MemoryUnchanged

\* get_media_details written with media.get(item_id, {}): no 404
media_details_get(item_id) ==
    LET media == load_media IN
    IF ~media.ok THEN InternalServerError("details", item_id)
    ELSE IF dict_has(media.value, item_id)
    THEN Response("details", item_id, 200, dict_get(media.value, item_id))
    ELSE Response("details", item_id, 200, EmptyDict)

media_details(item_id) ==
    LET media == load_media IN
    IF ~media.ok THEN InternalServerError("details", item_id)
    ELSE IF dict_has(media.value, item_id)
    THEN Response("details", item_id, 200, dict_get(media.value, item_id))
    ELSE Response("details", item_id, 404, [error |-> "Item not found"])

get_media_details(item_id) ==
    /\ program = "file"
    /\ last' = media_details(item_id)
    /\ UNCHANGED <<file, nextUuid>>
    /\ MemoryUnchanged

required_fields == <<"name", "author", "publication_date", "category">>

\* first_missing reporting the field after the one that is missing
first_missing_shifted(data) ==
    IF \E i \in 1..Len(required_fields) : required_fields[i] \notin DOMAIN data
    THEN ((CHOOSE i \in 1..Len(required_fields) :
            /\ required_fields[i] \notin DOMAIN data
            /\ \A j \in 1..(i-1) : required_fields[j] \in DOMAIN data)
          % Len(required_fields)) + 1
    ELSE 0

\* the first required field that data lacks, 0 when it has them all
first_missing(data) ==
    IF \E i \in 1..Len(required_fields) : required_fields[i] \notin DOMAIN data
    THEN CHOOSE i \in 1..Len(required_fields) :
            /\ required_fields[i] \notin DOMAIN data
            /\ \A j \in 1..(i-1) : required_fields[j] \in DOMAIN data
    ELSE 0

\* the sequential policy: the id is the size of the collection plus one
uuid4_by_count == IF program = "file" THEN Len(load_media.value) + 1 ELSE Len(store) + 1

\* str(uuid.uuid4())
uuid4 == nextUuid

\* new_record with the name stored as the author
new_record_swapped(data) ==
    [name |-> data["name"], author |-> data["name"],
     publication_date |-> data["publication_date"], category |-> data["category"]]

new_record(data) ==
    [name |-> data["name"], author |-> data["author"],
     publication_date |-> data["publication_date"], category |-> data["category"]]

create_media(data) ==
    /\ program = "file"
    /\ LET missing == first_missing(data) IN
       IF missing # 0
       THEN /\ last' = Response("create", data, 400,
                                [error |-> "Missing field", field |-> required_fields[missing]])
            /\ UNCHANGED <<file, nextUuid>>
       ELSE LET media == load_media IN
            IF ~media.ok
            THEN /\ last' = InternalServerError("create", data)
                 /\ UNCHANGED <<file, nextUuid>>
            ELSE /\ nextUuid <= MaxUuid
                 /\ LET item_id == uuid4 IN
                    /\ file' = save_media(dict_set(media.value, item_id, new_record(data)))
                    /\ last' = Response("create", data, 201,
                                        [message |-> "Media created", id |-> item_id])
                 /\ nextUuid' = nextUuid + 1
    /\ MemoryUnchanged

\* delete_media without the del statement
delete_media_keep(item_id) ==
    /\ program = "file"
    /\ LET media == load_media IN
       IF ~media.ok
       THEN /\ last' = InternalServerError("delete", item_id)
            /\ UNCHANGED file
       ELSE IF ~dict_has(media.value, item_id)
       THEN /\ last' = Response("delete", item_id, 404, [error |-> "Item not found"])
            /\ UNCHANGED file
       ELSE /\ file' = save_media(media.value)
            /\ last' = Response("delete", item_id, 200, [message |-> "Item deleted"])
    /\ UNCHANGED nextUuid
    /\ MemoryUnchanged

\* delete_media without the membership test, as media.pop(item_id, None)
delete_media_pop(item_id) ==
    /\ program = "file"
    /\ LET media == load_media IN
       IF ~media.ok
       THEN /\ last' = InternalServerError("delete", item_id)
            /\ UNCHANGED file
       ELSE /\ file' = save_media(dict_del(media.value, item_id))
            /\ last' = Response("delete", item_id, 200, [message |-> "Item deleted"])
    /\ UNCHANGED nextUuid
    /\ MemoryUnchanged

delete_media(item_id) ==
    /\ program = "file"
    /\ LET media == load_media IN
       IF ~media.ok
       THEN /\ last' = InternalServerError("delete", item_id)
            /\ UNCHANGED file
       ELSE IF ~dict_has(media.value, item_id)
       THEN /\ last' = Response("delete", item_id, 404, [error |-> "Item not found"])
            /\ UNCHANGED file
       ELSE /\ file' = save_media(dict_del(media.value, item_id))
            /\ last' = Response("delete", item_id, 200, [message |-> "Item deleted"])
    /\ UNCHANGED nextUuid
    /\ MemoryUnchanged

\* the sample data of the __main__ block: the fifth book and the second
\* magazine of its two lists of 20 (the other entries are built the same way)
books == << << <<"1","9","8","4">>,
              <<"G","e","o","r","g","e"," ","O","r","w","e","l","l">>,
              <<"1","9","4","9">> >> >>
magazines == << << <<"T","i","m","e">>,
                  <<"T","i","m","e"," ","I","n","c",".">>,
                  <<"2","0","2","4">> >> >>

sample_record(entry, category) ==
    [name |-> entry[1], author |-> entry[2],
     publication_date |-> entry[3], category |-> category]

\* sample_data after the two loops, the first token being first
sample_data(first) ==
    [i \in 1..(Len(books) + Len(magazines)) |->
        [key |-> first + i - 1,
         value |-> IF i <= Len(books)
                   THEN sample_record(books[i], Book)
                   ELSE sample_record(magazines[i - Len(books)], Magazine)]]

\* python backend.py: the __main__ block, run at every start of the script
main ==
    /\ program = "file"
    /\ nextUuid + Len(books) + Len(magazines) - 1 <= MaxUuid
    /\ file' = save_media(sample_data(nextUuid))
    /\ nextUuid' = nextUuid + Len(books) + Len(magazines)
    /\ last' = Response("main", NoArg, 0, NoArg)
    /\ MemoryUnchanged

\* The record another process writes into media.json
written_record ==
    [name |-> dune, author |-> Herbert, publication_date |-> Y1965, category |-> Book]

\* Another process edits media.json between two requests: it adds one record
\* under a key of its own to the mapping the file holds.  "load_media() will
\* be called inside each endpoint so the server always reads the current
\* media.json file."
external_write ==
    /\ program = "file"
    /\ load_media.ok
    /\ nextUuid <= MaxUuid
    /\ file' = [exists |-> TRUE,
                text |-> json_dump(dict_set(load_media.value, nextUuid, written_record))]
    /\ nextUuid' = nextUuid + 1
    /\ last' = Response("external", nextUuid, 0, written_record)
    /\ MemoryUnchanged

----------------------------------------------------------------------------
(* mock_backend.py: the in-memory list _media and the counter _next_id *)

FileUnchanged == UNCHANGED <<program, file, nextUuid, requests, gui>>

InitialMedia ==
    << [id |-> 1, name |-> <<"T","h","e"," ","H","o","b","b","i","t">>,
        author |-> <<"J",".","R",".","R","."," ","T","o","l","k","i","e","n">>,
        publication_date |-> <<"1","9","3","7">>, category |-> Book],
       [id |-> 2, name |-> <<"I","n","c","e","p","t","i","o","n">>,
        author |-> <<"C","h","r","i","s","t","o","p","h","e","r"," ","N","o","l","a","n">>,
        publication_date |-> <<"2","0","1","0">>, category |-> Film],
       [id |-> 3, name |-> <<"N","a","t","i","o","n","a","l"," ",
                             "G","e","o","g","r","a","p","h","i","c">>,
        author |-> <<"V","a","r","i","o","u","s">>,
        publication_date |-> <<"2","0","2","0","-","0","6">>, category |-> Magazine] >>

\* payload.get(key): the value, or None when the key is absent
payload_get(payload, key) == IF key \in DOMAIN payload THEN payload[key] ELSE None

\* Python truth of a string or None
truthy(v) == v # None /\ v # EmptyStr

get_media ==
    /\ program = "mock"
    /\ last' = Response("list_all", NoArg, 200, _media)
    /\ UNCHANGED <<_media, _next_id, store>>
    /\ FileUnchanged

list_filter_category(items, category) ==
    SelectSeq(items, LAMBDA m : lower(str(m.category)) = lower(category))

get_by_category(category) ==
    /\ program = "mock"
    /\ last' = Response("category", category, 200, list_filter_category(_media, category))
    /\ UNCHANGED <<_media, _next_id, store>>
    /\ FileUnchanged

\* sub in s, tested at the start of s only
in_str_at_start(sub, s) ==
    Len(sub) <= Len(s) /\ SubSeq(s, 1, Len(sub)) = sub

\* sub in s, for two Python strings
in_str(sub, s) ==
    \E i \in 0..Len(s) :
        i + Len(sub) <= Len(s) /\ SubSeq(s, i + 1, i + Len(sub)) = sub

\* the list comprehension of search
list_filter_name(items, name) ==
    LET s == lower(name) IN
    SelectSeq(items, LAMBDA m : in_str(s, lower(str(m.name))))

search(name) ==
    /\ program = "mock"
    /\ last' = Response("search", name, 200, list_filter_name(_media, name))
    /\ UNCHANGED <<_media, _next_id, store>>
    /\ FileUnchanged

\* the item of create with its id taken from the length of the list
new_item_by_count(payload) ==
    [id |-> Len(_media) + 1,
     name |-> payload_get(payload, "name"),
     author |-> payload_get(payload, "author"),
     publication_date |-> payload_get(payload, "publication_date"),
     category |-> payload_get(payload, "category")]

new_item(payload) ==
    [id |-> _next_id,
     name |-> payload_get(payload, "name"),
     author |-> payload_get(payload, "author"),
     publication_date |-> payload_get(payload, "publication_date"),
     category |-> payload_get(payload, "category")]

create(payload) ==
    /\ program = "mock"
    /\ IF ~truthy(payload_get(payload, "name"))
       THEN /\ last' = Response("create", payload, 400, [error |-> "name required"])
            /\ UNCHANGED <<_media, _next_id>>
       ELSE /\ _next_id <= MaxNextId
            /\ _media' = Append(_media, new_item(payload))
            /\ _next_id' = _next_id + 1
            /\ last' = Response("create", payload, 200, new_item(payload))
    /\ UNCHANGED store
    /\ FileUnchanged

\* delete with the filter written as int(m.get('id')) < int(item_id)
delete_keep_smaller(item_id) ==
    /\ program = "mock"
    /\ LET before == Len(_media)
           kept == SelectSeq(_media, LAMBDA m : m.id < item_id)
       IN /\ _media' = kept
          /\ last' = IF Len(kept) = before
                     THEN Response("delete", item_id, 404, [error |-> "not found"])
                     ELSE Response("delete", item_id, 200, [deleted |-> item_id])
    /\ UNCHANGED <<_next_id, store>>
    /\ FileUnchanged

delete(item_id) ==
    /\ program = "mock"
    /\ LET before == Len(_media)
           kept == SelectSeq(_media, LAMBDA m : m.id # item_id)
       IN /\ _media' = kept
          /\ last' = IF Len(kept) = before
                     THEN Response("delete", item_id, 404, [error |-> "not found"])
                     ELSE Response("delete", item_id, 200, [deleted |-> item_id])
    /\ UNCHANGED <<_next_id, store>>
    /\ FileUnchanged

----------------------------------------------------------------------------
(* backend.py lines 256-323: the list store of _create_mock_app *)

is_space(c) == c \in {" ", "\t", "\n", "\r"}

RECURSIVE lstrip(_)
lstrip(s) == IF s # <<>> /\ is_space(Head(s)) THEN lstrip(Tail(s)) ELSE s

RECURSIVE rstrip(_)
rstrip(s) ==
    IF s # <<>> /\ is_space(s[Len(s)]) THEN rstrip(SubSeq(s, 1, Len(s) - 1)) ELSE s

\* str.strip()
strip(s) == rstrip(lstrip(s))

\* data.get(key, default)
data_get(data, key, default) == IF key \in DOMAIN data THEN data[key] ELSE default

\* x or y, for strings
or_else(x, y) == IF x # EmptyStr THEN x ELSE y

Unknown == <<"U","n","k","n","o","w","n">>

\* _populate(): "Empty database - no initial data"
populated_store == <<>>

list_media ==
    /\ program = "embedded"
    /\ last' = Response("list_all", NoArg, 200, store)
    /\ UNCHANGED <<store, _media, _next_id>>
    /\ FileUnchanged

\* the list comprehension of media_by_category
items_in_category(category) ==
    LET cat == lower(strip(category)) IN
    SelectSeq(store, LAMBDA v : lower(v.category) = cat)

media_by_category(category) ==
    /\ program = "embedded"
    /\ last' = Response("category", category, 200, items_in_category(category))
    /\ UNCHANGED <<store, _media, _next_id>>
    /\ FileUnchanged

\* the list comprehension of the embedded search_media
items_matching(name) ==
    LET q == lower(strip(name)) IN
    SelectSeq(store, LAMBDA v : in_str(q, lower(v.name) \o lower(v.author)))

mock_search_media(name) ==
    /\ program = "embedded"
    /\ last' = Response("search", name, 200, items_matching(name))
    /\ UNCHANGED <<store, _media, _next_id>>
    /\ FileUnchanged

appended_item(data, item_id) ==
    [id |-> item_id,
     name |-> strip(data_get(data, "name", EmptyStr)),
     author |-> or_else(strip(data_get(data, "author", EmptyStr)), Unknown),
     publication_date |-> or_else(strip(data_get(data, "publication_date", EmptyStr)), EmptyStr),
     category |-> or_else(strip(data_get(data, "category", Book)), Book),
     option_a |-> ("option_a" \in DOMAIN data /\ data["option_a"] = TRUE)]

\* create_media assigning a one-item list to store instead of appending
mock_create_media_assign(data) ==
    /\ program = "embedded"
    /\ IF strip(data_get(data, "name", EmptyStr)) = EmptyStr
       THEN /\ last' = Response("create", data, 400, [error |-> "name is required"])
            /\ UNCHANGED <<store, nextUuid>>
       ELSE /\ nextUuid <= MaxUuid
            /\ store' = <<appended_item(data, uuid4)>>
            /\ nextUuid' = nextUuid + 1
            /\ last' = Response("create", data, 201, appended_item(data, uuid4))
    /\ UNCHANGED <<program, file, _media, _next_id, requests, gui>>

mock_create_media(data) ==
    /\ program = "embedded"
    /\ IF strip(data_get(data, "name", EmptyStr)) = EmptyStr
       THEN /\ last' = Response("create", data, 400, [error |-> "name is required"])
            /\ UNCHANGED <<store, nextUuid>>
       ELSE /\ nextUuid <= MaxUuid
            /\ store' = Append(store, appended_item(data, uuid4))
            /\ nextUuid' = nextUuid + 1
            /\ last' = Response("create", data, 201, appended_item(data, uuid4))
    /\ UNCHANGED <<program, file, _media, _next_id, requests, gui>>

\* delete_media with del store[i - 1]: the item before the one found (the
\* last item when the first is found)
delete_first_off_by_one(items, item_id) ==
    LET i == CHOOSE k \in 1..Len(items) :
                /\ items[k].id = item_id
                /\ \A j \in 1..(k-1) : items[j].id # item_id
        d == IF i = 1 THEN Len(items) ELSE i - 1
    IN SubSeq(items, 1, d - 1) \o SubSeq(items, d + 1, Len(items))

\* the store without its first item whose id is item_id
delete_first(items, item_id) ==
    LET i == CHOOSE k \in 1..Len(items) :
                /\ items[k].id = item_id
                /\ \A j \in 1..(k-1) : items[j].id # item_id
    IN SubSeq(items, 1, i - 1) \o SubSeq(items, i + 1, Len(items))

mock_delete_media(item_id) ==
    /\ program = "embedded"
    /\ LET found == \E k \in 1..Len(store) : store[k].id = item_id IN
       IF found
       THEN /\ store' = delete_first(store, item_id)
            /\ last' = Response("delete", item_id, 200, [deleted |-> item_id])
       ELSE /\ UNCHANGED store
            /\ last' = Response("delete", item_id, 404, [error |-> "not found"])
    /\ UNCHANGED <<_media, _next_id>>
    /\ FileUnchanged

----------------------------------------------------------------------------
(* backend.py lines 387-813: BackendClient and LibraryGUI *)

\* the widgets of LibraryGUI: status_var, the message box shown last, and
\* media_data
Window(text, items, box, media_data) ==
    [status_var |-> [text |-> text, items |-> items],
     messagebox |-> box,
     media_data |-> media_data]

\* status_var = "", no message box, media_data = {}
NoWindow == Window("", 0, "none", EmptyDict)

\* a JSON value as the client holds it: None, a dict or a list
Json(kind, value) == [kind |-> kind, value |-> value]

JsonNone == Json("null", <<>>)

\* r.json() of a response: backend.py answers with mappings, the two mocks
\* with lists
r_json(response) == Json(IF program = "file" THEN "dict" ELSE "list", response.body)

\* r.ok
r_ok(response) == response.status < 400

\* the answer of the running backend to GET /media
media_response ==
    CASE program = "file" -> all_media
      [] program = "mock" -> Response("list_all", NoArg, 200, _media)
      [] program = "embedded" -> Response("list_all", NoArg, 200, store)

\* _get and _delete: the JSON body of an ok response, {} for another
\* response, None when the request raises RequestException
_get(response, reachable) ==
    IF ~reachable THEN JsonNone
    ELSE IF r_ok(response) THEN r_json(response)
    ELSE Json("dict", EmptyDict)

\* Python truth of a JSON value
json_truthy(v) == v.kind # "null" /\ v.value # <<>>

\* v or []
or_list(v) == IF json_truthy(v) THEN v ELSE Json("list", <<>>)

Digits == <<"0", "1", "2", "3", "4", "5", "6", "7", "8", "9">>

\* str(n) of an int
RECURSIVE str_int(_)
str_int(n) ==
    IF n < 10 THEN <<Digits[n + 1]>>
    ELSE str_int(n \div 10) \o <<Digits[(n % 10) + 1]>>

\* int(s) of a string of digits
RECURSIVE int_str(_)
int_str(s) ==
    IF s = <<>> THEN 0
    ELSE 10 * int_str(SubSeq(s, 1, Len(s) - 1))
         + (CHOOSE d \in 0..9 : Digits[d + 1] = s[Len(s)])

\* str(id): the ids of mock_backend.py are ints, the others are strings
str_id(id) == IF program = "mock" THEN str_int(id) ELSE id

\* the token that stands for the key "id" of a single object
IdKey == 0

\* for k, v in resp.items(): out[str(k)] = v
RECURSIVE normalize_items(_, _)
normalize_items(entries, out) ==
    IF entries = <<>> THEN out
    ELSE normalize_items(Tail(entries),
                         dict_set(out, Head(entries).key, Head(entries).value))

\* the loop over a list with out = {} inside the loop: the last item alone
normalize_list_last(items, out) ==
    IF items = <<>> THEN out
    ELSE <<[key |-> str_id(items[Len(items)].id), value |-> items[Len(items)]]>>

\* for item in resp: out[str(item.get("id") or ... or uuid4())] = item
RECURSIVE normalize_list(_, _)
normalize_list(items, out) ==
    IF items = <<>> THEN out
    ELSE LET item == Head(items)
             item_id == IF item.id # 0 THEN item.id ELSE uuid4
         IN normalize_list(Tail(items), dict_set(out, str_id(item_id), item))

normalize_media_response(resp) ==
    IF ~json_truthy(resp) THEN EmptyDict
    ELSE IF resp.kind = "dict"
    THEN IF dict_has(resp.value, IdKey)
         THEN <<[key |-> dict_get(resp.value, IdKey), value |-> resp.value]>>
         ELSE normalize_items(resp.value, EmptyDict)
    ELSE normalize_list(resp.value, EmptyDict)

\* BackendClient.list_all
list_all(reachable) ==
    Json("dict", normalize_media_response(or_list(_get(media_response, reachable))))

\* sorted(data.keys(), key=lambda k: int(k)), and the keys as they come
\* when int(k) raises: a uuid is no number
ordered(data) ==
    IF program = "mock"
    THEN SortSeq(data, LAMBDA a, b : int_str(a.key) < int_str(b.key))
    ELSE data

\* the window after LibraryGUI.load_all
loaded(reachable) ==
    LET data == list_all(reachable) IN
    IF data.kind = "null"
    THEN Window("Offline", 0, "Connection", gui.media_data)
    ELSE Window("Loaded", Len(ordered(data.value)), "none", ordered(data.value))

\* LibraryGUI.load_all: the Refresh button, and the end of __init__
load_all(reachable) ==
    /\ gui' = loaded(reachable)
    /\ UNCHANGED <<program, file, nextUuid, _media, _next_id, store, last, requests>>

\* open_delete_confirm.do_delete once the backend has answered the DELETE of
\* the selected item: the letter b was typed, resp is the JSON of a 200 and
\* {} otherwise; then load_all() and the "Deleted" box
do_delete(reachable) ==
    /\ last.op = "delete"
    /\ dict_has(gui.media_data, str_id(last.arg))
    /\ LET resp == _get(last, TRUE) IN
       IF resp.kind = "null"
       THEN gui' = [gui EXCEPT !.messagebox = "Network"]
       ELSE gui' = [loaded(reachable) EXCEPT !.messagebox = "Deleted"]
    /\ UNCHANGED <<program, file, nextUuid, _media, _next_id, store, last, requests>>

\* do_delete when the DELETE request raises RequestException
do_delete_unreachable ==
    /\ gui.media_data # EmptyDict
    /\ gui' = [gui EXCEPT !.messagebox = "Network"]
    /\ UNCHANGED <<program, file, nextUuid, _media, _next_id, store, last, requests>>

\* the body BackendClient.create posts
client_payload(name) ==
    [name |-> name, author |-> Herbert, publication_date |-> Y1965,
     category |-> Book, option_a |-> FALSE]

ClientPayloads == {client_payload(Dune)}

----------------------------------------------------------------------------
(* The state machine *)

\* media.json as the module finds it when it is imported: absent, empty,
\* or holding an empty mapping
InitialFiles ==
    {NoFile,
     [exists |-> TRUE, text |-> EmptyText],
     [exists |-> TRUE, text |-> json_dump(EmptyDict)]}

Init ==
    /\ program \in {"file", "mock", "embedded"}
    /\ file \in (IF program = "file" THEN InitialFiles ELSE {NoFile})
    /\ nextUuid = 1
    /\ _media = (IF program = "mock" THEN InitialMedia ELSE <<>>)
    /\ _next_id = 4
    /\ store = populated_store
    /\ last = Response("start", NoArg, 0, NoArg)
    /\ requests = <<>>
    /\ gui = NoWindow

Next ==
    \/ get_all_media
    \/ \E category \in CategoryQueries : get_media_by_category(category)
    \/ \E name \in SearchQueries : search_media(name)
    \/ \E item_id \in ItemIds : get_media_details(item_id)
    \/ \E data \in CreatePayloads : create_media(data)
    \/ \E item_id \in ItemIds : delete_media(item_id)
    \/ main
    \/ external_write
    \/ get_media
    \/ \E category \in CategoryQueries : get_by_category(category)
    \/ \E name \in SubstringQueries : search(name)
    \/ \E payload \in MockPayloads : create(payload)
    \/ \E item_id \in MockItemIds : delete(item_id)
    \/ list_media
    \/ \E category \in CategoryQueries : media_by_category(category)
    \/ \E name \in StoreQueries : mock_search_media(name)
    \/ \E data \in CreatePayloads : mock_create_media(data)
    \/ \E item_id \in ItemIds : mock_delete_media(item_id)

Spec == Init /\ [][Next]_vars

----------------------------------------------------------------------------
(* backend.py under a threaded server: a handler reads media.json in one   *)
(* step and writes it in a later one, and other handlers run in between.   *)

\* JSON bodies of the concurrent POST /media/create requests
ThreadedPayloads ==
    {Payload(Fields, Dune, Book), Payload(Fields, Dune, book),
     Payload(Fields \ {"author"}, Dune, Book)}

\* a handler that has returned
Done(op, arg, status, body) ==
    [op |-> op, arg |-> arg, pc |-> "done", media |-> EmptyDict, item_id |-> 0,
     status |-> status, body |-> body]

\* a handler between its load_media() and its save_media(): media is its
\* local dict, already changed
Loaded(op, arg, media, item_id) ==
    [op |-> op, arg |-> arg, pc |-> "loaded", media |-> media, item_id |-> item_id,
     status |-> 0, body |-> NoArg]

Answer(request) == Response(request.op, request.arg, request.status, request.body)

\* create_media up to save_media: the validation, load_media(), the new id
\* and the assignment to the local dict
create_media_load(data) ==
    /\ Len(requests) < MaxRequests
    /\ LET missing == first_missing(data) IN
       IF missing # 0
       THEN /\ requests' = Append(requests,
                  Done("create", data, 400,
                       [error |-> "Missing field", field |-> required_fields[missing]]))
            /\ last' = Response("create", data, 400,
                                [error |-> "Missing field", field |-> required_fields[missing]])
            /\ UNCHANGED nextUuid
       ELSE LET media == load_media IN
            IF ~media.ok
            THEN /\ requests' = Append(requests,
                       Done("create", data, 500, "Internal Server Error"))
                 /\ last' = InternalServerError("create", data)
                 /\ UNCHANGED nextUuid
            ELSE /\ nextUuid <= MaxUuid
                 /\ LET item_id == uuid4 IN
                    requests' = Append(requests,
                        Loaded("create", data,
                               dict_set(media.value, item_id, new_record(data)), item_id))
                 /\ nextUuid' = nextUuid + 1
                 /\ UNCHANGED last
    /\ UNCHANGED <<file, program, _media, _next_id, store, gui>>

\* create_media reading the file again before it writes its record
create_media_save_reread(t) ==
    /\ requests[t].pc = "loaded"
    /\ requests[t].op = "create"
    /\ file' = save_media(dict_set(load_media.value, requests[t].item_id,
                                   new_record(requests[t].arg)))
    /\ LET done == Done("create", requests[t].arg, 201,
                        [message |-> "Media created", id |-> requests[t].item_id]) IN
       /\ requests' = [requests EXCEPT ![t] = [done EXCEPT !.item_id = requests[t].item_id]]
       /\ last' = Answer(done)
    /\ UNCHANGED <<nextUuid, program, _media, _next_id, store, gui>>

\* create_media from save_media on
create_media_save(t) ==
    /\ requests[t].pc = "loaded"
    /\ requests[t].op = "create"
    /\ file' = save_media(requests[t].media)
    /\ LET done == Done("create", requests[t].arg, 201,
                        [message |-> "Media created", id |-> requests[t].item_id]) IN
       /\ requests' = [requests EXCEPT ![t] = [done EXCEPT !.item_id = requests[t].item_id]]
       /\ last' = Answer(done)
    /\ UNCHANGED <<nextUuid, program, _media, _next_id, store, gui>>

\* delete_media up to save_media: load_media(), the membership test and del
delete_media_load(item_id) ==
    /\ Len(requests) < MaxRequests
    /\ LET media == load_media IN
       IF ~media.ok
       THEN /\ requests' = Append(requests,
                  Done("delete", item_id, 500, "Internal Server Error"))
            /\ last' = InternalServerError("delete", item_id)
       ELSE IF ~dict_has(media.value, item_id)
       THEN /\ requests' = Append(requests,
                  Done("delete", item_id, 404, [error |-> "Item not found"]))
            /\ last' = Response("delete", item_id, 404, [error |-> "Item not found"])
       ELSE /\ requests' = Append(requests,
                  Loaded("delete", item_id, dict_del(media.value, item_id), item_id))
            /\ UNCHANGED last
    /\ UNCHANGED <<file, nextUuid, program, _media, _next_id, store, gui>>

\* delete_media from save_media on
delete_media_save(t) ==
    /\ requests[t].pc = "loaded"
    /\ requests[t].op = "delete"
    /\ file' = save_media(requests[t].media)
    /\ LET done == Done("delete", requests[t].arg, 200, [message |-> "Item deleted"]) IN
       /\ requests' = [requests EXCEPT ![t] = [done EXCEPT !.item_id = requests[t].item_id]]
       /\ last' = Answer(done)
    /\ UNCHANGED <<nextUuid, program, _media, _next_id, store, gui>>

InitThreaded ==
    /\ program = "file"
    /\ file \in InitialFiles
    /\ nextUuid = 1
    /\ _media = <<>>
    /\ _next_id = 4
    /\ store = populated_store
    /\ last = Response("start", NoArg, 0, NoArg)
    /\ requests = <<>>
    /\ gui = NoWindow

NextThreaded ==
    \/ \E data \in ThreadedPayloads : create_media_load(data)
    \/ \E t \in 1..Len(requests) : create_media_save(t)
    \/ \E item_id \in ItemIds : delete_media_load(item_id)
    \/ \E t \in 1..Len(requests) : delete_media_save(t)

SpecThreaded == InitThreaded /\ [][NextThreaded]_vars

----------------------------------------------------------------------------
(* A backend with the Tkinter client: the creates the client posts, the    *)
(* deletes, and the handlers of LibraryGUI.                                *)

NextClient ==
    \/ \E data \in ClientPayloads : create_media(data)
    \/ \E item_id \in ItemIds : delete_media(item_id)
    \/ \E payload \in ClientPayloads : create(payload)
    \/ \E item_id \in MockItemIds : delete(item_id)
    \/ \E data \in ClientPayloads : mock_create_media(data)
    \/ \E item_id \in ItemIds : mock_delete_media(item_id)
    \/ \E reachable \in BOOLEAN : load_all(reachable)
    \/ \E reachable \in BOOLEAN : do_delete(reachable)
    \/ do_delete_unreachable

SpecClient == Init /\ [][NextClient]_vars

----------------------------------------------------------------------------
(* The contract of the store *)

\* the ids of the records that are live
LiveIds ==
    CASE program = "file" -> IF load_media.ok THEN dict_keys(load_media.value) ELSE {}
      [] program = "mock" -> {_media[i].id : i \in 1..Len(_media)}
      [] program = "embedded" -> {store[i].id : i \in 1..Len(store)}

\* the live records, in collection order
LiveRecords ==
    CASE program = "file" -> IF load_media.ok THEN load_media.value ELSE <<>>
      [] program = "mock" -> _media
      [] program = "embedded" -> store

RecordId(r) == IF program = "file" THEN r.key ELSE r.id

Succeeded(response) == response.status \in {200, 201}

\* the id a successful create returned
CreatedId(response) == response.body.id

DistinctIds ==
    \A i, j \in 1..Len(LiveRecords) :
        i # j => RecordId(LiveRecords[i]) # RecordId(LiveRecords[j])

\* a successful create stores under an id that was not live, and every
\* record that was live is still there, unchanged
CreateKeepsRecords ==
    (last'.op = "create" /\ Succeeded(last')) =>
        /\ CreatedId(last') \notin LiveIds
        /\ \A i \in 1..Len(LiveRecords) :
              \E j \in 1..Len(LiveRecords') : LiveRecords'[j] = LiveRecords[i]

\* C1 (uniqueness): in backend.py, mock_backend.py and the embedded mock no
\* two live records ever share an id, and a successful create assigns an id
\* that is not an id of the collection it is added to, so it overwrites no
\* record.
C1_Uniqueness == []DistinctIds /\ [][CreateKeepsRecords]_vars

\* two creates succeeded, the first of the two records was deleted, and a
\* third create succeeded
C1_Witness ==
    /\ program = "file"
    /\ load_media.ok
    /\ dict_keys(load_media.value) = {2, 3}
    /\ last.op = "create"
    /\ Succeeded(last)

\* C2 (round trip): in backend.py, right after a create answered 201,
\* GET /media/details/<id> with the id of that answer yields 200 and a record
\* whose four fields are those of the request.
C2_RoundTrip ==
    (program = "file" /\ last.op = "create" /\ last.status = 201) =>
        /\ media_details(CreatedId(last)).status = 200
        /\ \A f \in Fields : media_details(CreatedId(last)).body[f] = last.arg[f]

\* a create was answered 201 and the details of its id can be served
C2_Witness ==
    /\ program = "file"
    /\ last.op = "create"
    /\ last.status = 201
    /\ ENABLED get_media_details(CreatedId(last))

\* the record of id x is in the collection that load_media yields
Live(x) == load_media.ok /\ dict_has(load_media.value, x)

\* a successful delete leaves the id out of get_by_id and of list_all
DeletedIsGone ==
    (program = "file" /\ last.op = "delete" /\ last.status = 200) =>
        /\ media_details(last.arg).status = 404
        /\ all_media.status = 200
        /\ ~dict_has(all_media.body, last.arg)

\* an id that was issued and is not live stays out as long as no create runs
GoneStaysGone ==
    \A x \in ItemIds :
        (program = "file" /\ x < nextUuid /\ ~Live(x) /\ last'.op # "create") => ~Live(x)'

\* C3 (delete then read): in backend.py, after a delete of id X answered
\* 200 and as long as no create has run since, get_by_id(X) answers 404 and
\* list_all does not hold X.
C3_DeleteThenRead == []DeletedIsGone /\ [][GoneStaysGone]_vars

\* a delete was answered 200 while another record stayed live
C3_Witness ==
    /\ program = "file"
    /\ last.op = "delete"
    /\ last.status = 200
    /\ Len(all_media.body) > 0

\* the category of a record of the collection
Category(r) == IF program = "file" THEN r.value.category ELSE r.category

\* a category equals c once both sides are lower-cased
MatchesCategory(category, c) == category # None /\ lower(category) = lower(c)

\* the storage holds a collection: no file, or a file holding a JSON mapping
HoldsCollection == program = "file" => load_media.ok

\* C4 (category filter): in backend.py and mock_backend.py, whatever the
\* collection and the category c, list_by_category(c) answers 200 with
\* exactly the records whose category equals c after lower-casing both sides.
C4_CategoryFilter ==
    (program \in {"file", "mock"} /\ HoldsCollection /\ last.op = "category") =>
        /\ last.status = 200
        /\ last.body = SelectSeq(LiveRecords, LAMBDA r : MatchesCategory(Category(r), last.arg))

\* a delete of an id that is not live answers 404 and changes neither the
\* collection nor the file
DeleteOfAbsentId ==
    (program \in {"file", "mock"} /\ HoldsCollection
        /\ last'.op = "delete" /\ last'.arg \notin LiveIds) =>
        /\ last'.status = 404
        /\ file' = file
        /\ _media' = _media

\* a delete that follows a successful delete of the same id answers 404
SecondDelete ==
    (program \in {"file", "mock"} /\ last.op = "delete" /\ last.status = 200
        /\ last'.op = "delete" /\ last'.arg = last.arg) =>
        last'.status = 404

\* C5 (delete of an absent id): in backend.py and mock_backend.py a delete
\* of an id that is not in the collection answers 404 and leaves the
\* collection and the storage as they were; a second delete of an id answers
\* 404.
C5_DeleteAbsent == [][DeleteOfAbsentId /\ SecondDelete]_vars

\* a delete of an id that had been issued and deleted was answered 404
C5_Witness ==
    /\ program = "file"
    /\ last.op = "delete"
    /\ last.status = 404
    /\ last.arg < nextUuid
    /\ file.exists

NameOmittedOrEmpty(data) == "name" \notin DOMAIN data \/ data["name"] = EmptyStr

\* C6 (validation of name): in the three variants a create whose name is
\* omitted or is the empty string answers 400 and does not alter the
\* collection.
C6_NameValidation ==
    [][(HoldsCollection /\ last'.op = "create" /\ NameOmittedOrEmpty(last'.arg)) =>
            (last'.status = 400 /\ LiveRecords' = LiveRecords)]_vars

MissingFields(data) == Fields \ DOMAIN data

\* C7 (required fields): in backend.py a create whose body lacks one of
\* name, author, publication_date, category answers 400 with an error that
\* names a field the body lacks, and media.json is not modified.
C7_RequiredFields ==
    [][(program = "file" /\ last'.op = "create" /\ MissingFields(last'.arg) # {}) =>
            /\ last'.status = 400
            /\ last'.body.field \in MissingFields(last'.arg)
            /\ file' = file]_vars

\* a create lacking exactly one field, not the name, was answered 400 while
\* the collection held a record
C7_Witness ==
    /\ program = "file"
    /\ last.op = "create"
    /\ last.status = 400
    /\ Cardinality(MissingFields(last.arg)) = 1
    /\ "name" \in DOMAIN last.arg
    /\ LiveIds # {}

\* C8 (persistence survives restart): in backend.py, when the script is
\* started again right after a create answered 201, list_all holds the
\* created record with the field values of the request.
C8_SurvivesRestart ==
    [][(program = "file" /\ last.op = "create" /\ last.status = 201 /\ last'.op = "main") =>
            /\ all_media'.status = 200
            /\ dict_has(all_media'.body, CreatedId(last))
            /\ \A f \in Fields :
                  dict_get(all_media'.body, CreatedId(last))[f] = last.arg[f]]_vars

\* C9 (absent or empty storage): in backend.py, when media.json does not
\* exist or exists and is empty, list_all answers 200 with an empty mapping.
C9_AbsentOrEmptyStorage ==
    (program = "file" /\ last.op = "list_all" /\ (~file.exists \/ file.text = EmptyText)) =>
        (last.status = 200 /\ last.body = EmptyDict)

\* the record a create request asks for
Requested(data) == [f \in Fields |-> data[f]]

\* when create or delete answers with success, media.json holds the
\* collection read before the operation plus the new record, or minus the
\* deleted one
PersistedByStep ==
    program = "file" =>
        /\ (last'.op = "create" /\ last'.status = 201) =>
              /\ file'.exists
              /\ file'.text.json
              /\ file'.text.value =
                    Append(load_media.value,
                           [key |-> CreatedId(last'), value |-> Requested(last'.arg)])
        /\ (last'.op = "delete" /\ last'.status = 200) =>
              /\ file'.exists
              /\ file'.text.json
              /\ file'.text.value = SelectSeq(load_media.value, LAMBDA e : e.key # last'.arg)
              /\ Len(file'.text.value) = Len(load_media.value) - 1

\* while a success response of create or delete is the last response, the
\* storage does not hold the collection without the created record, or with
\* the deleted one
PersistedWhenAnswered ==
    program = "file" =>
        /\ (last.op = "create" /\ last.status = 201) => Live(CreatedId(last))
        /\ (last.op = "delete" /\ last.status = 200) => (load_media.ok /\ ~Live(last.arg))

\* C10 (persist before return): in backend.py, whenever create or delete
\* answers with success, media.json already holds the complete collection
\* after the operation.
C10_PersistBeforeReturn == []PersistedWhenAnswered /\ [][PersistedByStep]_vars

\* a create was answered 201 on a collection that already held a record
C10_Witness ==
    /\ program = "file"
    /\ last.op = "create"
    /\ last.status = 201
    /\ Len(load_media.value) >= 2

\* the mapping that media.json holds, read off the bytes of the file
OnDisk == IF file.exists /\ file.text.json THEN file.text.value ELSE <<>>

\* the entry that the other process wrote in the step before
Written(response) == [key |-> response.arg, value |-> response.body]

HasEntry(media, entry) == \E i \in 1..Len(media) : media[i] = entry

\* the request that follows the write is a read, and it shows the record
WrittenIsVisible ==
    last.op = "external" =>
        /\ last'.op = "list_all" =>
              last'.status = 200 /\ HasEntry(last'.body, Written(last))
        /\ (last'.op = "details" /\ last'.arg = last.arg) =>
              last'.status = 200 /\ last'.body = last.body
        /\ (last'.op = "category" /\ last'.arg \in {Book, book}) =>
              last'.status = 200 /\ HasEntry(last'.body, Written(last))

\* the request that follows the write creates a record or deletes another id
WrittenIsKept ==
    (/\ last.op = "external"
     /\ \/ last'.op = "create"
        \/ last'.op = "delete" /\ last'.arg # last.arg)
    => HasEntry(OnDisk', Written(last))

\* C11: a record written into media.json by another process between two
\* requests is seen by the next read request, and it is still in the file
\* after the next create, or delete of another id.
C11_ReloadBeforeMutate == [][WrittenIsVisible /\ WrittenIsKept]_vars

\* a create has succeeded and the file holds its record after the record
\* that the other process wrote
C11_Witness ==
    /\ last.op = "create"
    /\ last.status = 201
    /\ \E i, j \in 1..Len(OnDisk) :
          /\ i < j
          /\ OnDisk[i].value = written_record
          /\ OnDisk[j].key = last.body.id

HasKey(media, key) == \E i \in 1..Len(media) : media[i].key = key

\* the requests that are creates with an id of their own
Creates == {t \in 1..Len(requests) : requests[t].op = "create" /\ requests[t].item_id # 0}

\* request t executes save_media in this step
Saves(t) == requests[t].pc = "loaded" /\ requests'[t].pc = "done"

\* no two records in the file have the same key
KeysDistinct == \A i, j \in 1..Len(OnDisk) : OnDisk[i].key = OnDisk[j].key => i = j

\* no two create requests have the same id
IssuedIdsDistinct ==
    \A t, u \in Creates : requests[t].item_id = requests[u].item_id => t = u

\* the save_media of a create replaces no record that the file holds
SaveReplacesNothing ==
    \A t \in Creates : Saves(t) =>
        /\ ~HasKey(OnDisk, requests[t].item_id)
        /\ HasEntry(OnDisk', [key |-> requests[t].item_id,
                              value |-> new_record(requests[t].arg)])

\* C12: with uuid ids, under every interleaving of the load and save steps of
\* concurrent creates and deletes, no two live records share an id and no
\* create stores its record over a record kept under another request's id.
C12_UuidSafeInterleaved ==
    /\ [](KeysDistinct /\ IssuedIdsDistinct)
    /\ [][SaveReplacesNothing]_vars

\* a create has stored its record while another create and a delete of that
\* record are between their load and their save
C12_Witness ==
    \E t, u, d \in 1..Len(requests) :
        /\ requests[t].op = "create" /\ requests[t].status = 201
        /\ HasKey(OnDisk, requests[t].item_id)
        /\ requests[u].op = "create" /\ requests[u].pc = "loaded"
        /\ requests[d].op = "delete" /\ requests[d].pc = "loaded"
        /\ requests[d].arg = requests[t].item_id

\* create u has answered 201 and its record is in the file, and create t,
\* which loaded the file before u saved it, now saves: t answers 201 too and
\* the file holds the record of t and no longer the record of u
SecondSaveLosesFirst ==
    \A t, u \in Creates :
        (/\ Saves(t)
         /\ requests[u].status = 201
         /\ HasKey(OnDisk, requests[u].item_id)
         /\ ~HasKey(requests[t].media, requests[u].item_id))
        => /\ requests'[t].status = 201
           /\ HasKey(OnDisk', requests[t].item_id)
           /\ ~HasKey(OnDisk', requests[u].item_id)

\* C13: when two creates both execute load_media before either executes
\* save_media, both answer 201 and the file ends with one of the two records.
C13_LostUpdate == [][SecondSaveLosesFirst]_vars

\* two creates were the only requests, both answered 201, and the file holds
\* the record of one of them alone
C13_Witness ==
    /\ Len(requests) = 2
    /\ \A t \in 1..2 : requests[t].op = "create" /\ requests[t].status = 201
    /\ Len(OnDisk) = 1
    /\ \E t \in 1..2 : OnDisk[1].key = requests[t].item_id

\* media.json is absent or holds a mapping
FileHoldsCollection == ~file.exists \/ file.text.json

\* C14 (get_by_id): in backend.py, whatever mapping media.json holds, the
\* answer to GET /media/details/<id> is 200 with the record stored under
\* that very key when the id is a key of the mapping, and 404 otherwise.
C14_GetById ==
    (program = "file" /\ last.op = "details" /\ FileHoldsCollection) =>
        /\ HasKey(OnDisk, last.arg) =>
              /\ last.status = 200
              /\ HasEntry(OnDisk, [key |-> last.arg, value |-> last.body])
        /\ ~HasKey(OnDisk, last.arg) => last.status = 404
        /\ last.status \in {200, 404}

\* the details of the second of two records stored with different values
\* were asked for and served
C14_Witness ==
    /\ program = "file"
    /\ last.op = "details"
    /\ last.status = 200
    /\ Len(OnDisk) >= 2
    /\ OnDisk[2].key = last.arg
    /\ OnDisk[1].value # OnDisk[2].value

\* the places in media.json of the records whose name is q, whatever the case
NamedLike(q) == {i \in 1..Len(OnDisk) : lower(OnDisk[i].value.name) = lower(q)}

C16_CreateResponse ==
    (/\ last.op = "create"
     /\ Succeeded(last)
     /\ DOMAIN last.arg = Fields
     /\ strip(last.arg["name"]) # EmptyStr) =>
        /\ last.status = 201
        /\ "id" \in DOMAIN last.body
        /\ \A f \in Fields : f \in DOMAIN last.body /\ last.body[f] = last.arg[f]
        /\ \E i \in 1..Len(LiveRecords) : RecordId(LiveRecords[i]) = last.body.id

\* the operations a client can request
RequestOps == {"create", "delete", "list_all", "category", "search", "details"}

\* the sequence without its element at place i
Without(records, i) == SubSeq(records, 1, i - 1) \o SubSeq(records, i + 1, Len(records))

\* a record that is live before and after the step is the same record
LiveRecordsKeepValues ==
    \A i \in 1..Len(LiveRecords) : \A j \in 1..Len(LiveRecords') :
        RecordId(LiveRecords[i]) = RecordId(LiveRecords'[j])
            => LiveRecords[i] = LiveRecords'[j]

\* the step leaves the collection as it is, inserts one record under an id
\* that was not live, or removes the record of the id asked for
InsertOrRemove ==
    \/ LiveRecords' = LiveRecords
    \/ /\ last'.op = "create"
       /\ Len(LiveRecords') = Len(LiveRecords) + 1
       /\ SubSeq(LiveRecords', 1, Len(LiveRecords)) = LiveRecords
       /\ \A i \in 1..Len(LiveRecords) :
             RecordId(LiveRecords[i]) # RecordId(LiveRecords'[Len(LiveRecords')])
    \/ /\ last'.op = "delete"
       /\ \E i \in 1..Len(LiveRecords) :
             /\ RecordId(LiveRecords[i]) = last'.arg
             /\ LiveRecords' = Without(LiveRecords, i)

\* C17 (no update): a create, delete or read request leaves every record
\* that stays live with the field values it had, and changes the collection
\* only by inserting a record under a new id or removing the record of an
\* existing id.
C17_NoUpdate ==
    [][last'.op \in RequestOps => LiveRecordsKeepValues /\ InsertOrRemove]_vars

\* in backend.py two records were created and written, the first was
\* deleted, and the second is live
C17_Witness ==
    /\ program = "file"
    /\ last.op = "delete"
    /\ last.status = 200
    /\ last.arg = 1
    /\ Len(OnDisk) >= 1
    /\ OnDisk[1].key = 2

\* the ids of the items of mock_backend.py's list
MediaIds == {_media[i].id : i \in 1..Len(_media)}

\* the counter is above the id of every item of the list
CounterAboveLive == program = "mock" => \A id \in MediaIds : id < _next_id

\* the counter never goes down, so it stays above the ids it was above; an
\* id that leaves the list was below it; and a create appends one item whose
\* id is the old value of the counter, an id that no item of the list has
CounterStaysAbove ==
    program = "mock" =>
        /\ _next_id' >= _next_id
        /\ \A id \in MediaIds \ MediaIds' : id < _next_id'
        /\ (last'.op = "create" /\ Succeeded(last')) =>
              /\ last'.body.id = _next_id
              /\ _next_id' = _next_id + 1
              /\ last'.body.id \notin MediaIds
              /\ MediaIds' = MediaIds \cup {last'.body.id}
              /\ Len(_media') = Len(_media) + 1

\* C18 (no id reuse with the counter): in mock_backend.py, after any creates
\* and deletes, _next_id is greater than the id of every item in _media and
\* of every item that was ever deleted, so a create never takes the id of a
\* live item.
C18_CounterNoReuse == []CounterAboveLive /\ [][CounterStaysAbove]_vars

\* two creates took the ids 4 and 5, the item 4 was deleted, and a third
\* create took the id 6
C18_Witness ==
    /\ program = "mock"
    /\ last.op = "create"
    /\ Succeeded(last)
    /\ last.body.id = 6
    /\ 4 \notin MediaIds
    /\ {5, 6} \subseteq MediaIds
    /\ Len(_media) = Cardinality(MediaIds)

\* the operations that only read
ReadOps == {"list_all", "category", "search", "details"}

\* a read request leaves media.json, the lists of the mocks and the id
\* counters as they were
ReadWritesNothing ==
    last'.op \in ReadOps =>
        /\ file' = file
        /\ _media' = _media
        /\ store' = store
        /\ _next_id' = _next_id
        /\ nextUuid' = nextUuid

\* the answer to list_all is the collection as it is when the request runs
ListIsWholeCollection ==
    (/\ last'.op = "list_all"
     /\ program = "file" => FileHoldsCollection) =>
        /\ last'.status = 200
        /\ last'.body = (CASE program = "file" -> OnDisk
                           [] program = "mock" -> _media
                           [] program = "embedded" -> store)

\* C19 (reads are pure): list_all, list_by_category, search_by_name and
\* get_by_id write nothing to storage and leave the collection unchanged, and
\* list_all answers with exactly the whole collection of that moment.
C19_ReadsArePure == [][ReadWritesNothing /\ ListIsWholeCollection]_vars

\* backend.py listed a file of two records or more
C19_Witness ==
    /\ program = "file"
    /\ last.op = "list_all"
    /\ last.status = 200
    /\ Len(OnDisk) >= 2
    /\ last.body = OnDisk

\* the body of the answer that list_all would give in this state
Listed ==
    CASE program = "file" -> all_media.body
      [] program = "mock" -> _media
      [] program = "embedded" -> store

\* C20 (create grows the collection by one): when a create succeeds, the
\* list that list_all answers with is the list it answered with before the
\* create, every record unchanged and in place, followed by one new record.
C20_CreateGrowsByOne ==
    [][(last'.op = "create" /\ Succeeded(last')) =>
          /\ Len(Listed') = Len(Listed) + 1
          /\ SubSeq(Listed', 1, Len(Listed)) = Listed]_vars

\* the embedded mock answered 201 to a create when its store already held
\* a record, and now holds two
C20_Witness ==
    /\ program = "embedded"
    /\ last.op = "create"
    /\ last.status = 201
    /\ Len(store) = 2
    /\ store[2].id = last.body.id

\* the id of a listed record
ListedId(r) == IF program = "file" THEN r.key ELSE r.id

\* a successful create puts its record, under the id it returns, at the end
\* of the list and leaves the rest of the list as it was
CreateAppendsReturnedId ==
    (last'.op = "create" /\ Succeeded(last')) =>
        /\ Listed' # <<>>
        /\ SubSeq(Listed', 1, Len(Listed') - 1) = Listed
        /\ ListedId(Listed'[Len(Listed')]) = CreatedId(last')

\* the request after a successful create deletes the id the create returned:
\* it succeeds and the list is again the list without its last record
DeleteOfCreatedRestores ==
    (/\ last.op = "create" /\ Succeeded(last)
     /\ last'.op = "delete" /\ last'.arg = CreatedId(last)) =>
        /\ Succeeded(last')
        /\ Listed # <<>>
        /\ Listed' = SubSeq(Listed, 1, Len(Listed) - 1)

\* C21 (create then delete restores the collection): a create followed by
\* the delete of the id it returned leaves list_all as it was before the
\* create: the create only appends its record to the list, and the delete
\* takes exactly that record away again.
C21_CreateDeleteRestores ==
    [][CreateAppendsReturnedId /\ DeleteOfCreatedRestores]_vars

\* in the embedded mock the record created last was deleted and every
\* record created before it is in the store
C21_Witness ==
    /\ program = "embedded"
    /\ last.op = "delete"
    /\ last.status = 200
    /\ last.arg = nextUuid - 1
    /\ Len(store) >= 1
    /\ Len(store) = nextUuid - 2

\* the number of items test_all.py expects in each category right after the
\* start of the mock
ExpectedPerCategory == 20

\* C22 (initial data of the embedded mock): right after the start of the
\* embedded mock, the category filter yields 20 items for each of Book, Film
\* and Magazine.
C22_Prepopulated ==
    (program = "embedded" /\ last.op = "start") =>
        \A category \in {Book, Film, Magazine} :
            Len(items_in_category(category)) = ExpectedPerCategory

\* C23 (serial ids of the embedded mock): after any adds and deletes the
\* ids of the items of the store are the serial numbers 1..N, N being the
\* number of items.
C23_SerialIds ==
    program = "embedded" =>
        {store[i].id : i \in 1..Len(store)} = 1..Len(store)

\* part is a run of consecutive letters of whole
IsSubstring(part, whole) ==
    \E i, j \in 0..Len(whole) :
        /\ i <= j
        /\ part = [k \in 1..(j - i) |-> whole[i + k]]

\* C24 (substring search of mock_backend.py): the answer to
\* GET /media/search/<q> is 200 with the items of _media, in the order of
\* _media, whose lower-cased name has the lower-cased q as a substring; it is
\* the empty list when there is none.
C24_SubstringSearch ==
    (program = "mock" /\ last.op = "search") =>
        /\ last.status = 200
        /\ last.body = SelectSeq(_media,
              LAMBDA m : IsSubstring(lower(last.arg), lower(m.name)))
        /\ (\A i \in 1..Len(_media) :
               ~IsSubstring(lower(last.arg), lower(_media[i].name)))
           => last.body = <<>>

\* a search of mock_backend.py returned two items or more, in the order of
\* the list, for a query that the name of the first does not start with
C24_Witness ==
    /\ program = "mock"
    /\ last.op = "search"
    /\ Len(last.body) >= 2
    /\ last.body[1].id < last.body[2].id
    /\ \E k \in 1..Len(last.arg) :
          /\ k <= Len(last.body[1].name)
          /\ lower(last.body[1].name)[k] # lower(last.arg)[k]

\* C25 (name-or-author search of the embedded mock): the answer to
\* GET /media/search/<q> holds an item exactly when the trimmed, lower-cased
\* q is a substring of its lower-cased name or of its lower-cased author; an
\* item of which neither field holds q is not returned.
C25_NameOrAuthorSearch ==
    (program = "embedded" /\ last.op = "search") =>
        LET q == lower(strip(last.arg)) IN
        last.body = SelectSeq(store,
            LAMBDA v : \/ IsSubstring(q, lower(v.name))
                       \/ IsSubstring(q, lower(v.author)))

\* the places of the live records whose id is x
PlacesOf(x) == {i \in 1..Len(LiveRecords) : RecordId(LiveRecords[i]) = x}

\* a delete that succeeded removed the one record of the id asked for, and
\* the other records are where they were, as they were
DeleteRemovesOne ==
    (last'.op = "delete" /\ Succeeded(last')) =>
        /\ Cardinality(PlacesOf(last'.arg)) = 1
        /\ Len(LiveRecords') = Len(LiveRecords) - 1
        /\ \A i \in 1..Len(LiveRecords) :
              /\ i \in PlacesOf(last'.arg) =>
                    \A j \in 1..Len(LiveRecords') :
                        RecordId(LiveRecords'[j]) # last'.arg
              /\ i \notin PlacesOf(last'.arg) =>
                    \E j \in 1..Len(LiveRecords') : LiveRecords'[j] = LiveRecords[i]

DeletesDone ==
    {d \in 1..Len(requests) : requests[d].op = "delete" /\ requests[d].status = 200}

\* delete d has answered 200 and its id is out of the file, and create t,
\* whose local dict was loaded with that id in it, now saves: t answers 201
\* and the id is in the file again
StaleSaveRestoresDeleted ==
    \A t \in Creates : \A d \in DeletesDone :
        (/\ Saves(t)
         /\ ~HasKey(OnDisk, requests[d].arg)
         /\ HasKey(requests[t].media, requests[d].arg))
        => /\ requests'[t].status = 201
           /\ HasKey(OnDisk', requests[d].arg)
           /\ HasKey(OnDisk', requests[t].item_id)

\* C27 (lost delete): when a delete of an existing id X and a create are
\* interleaved so that the create loads before the delete saves and saves
\* after it, both answer with success and the file still holds X.
C27_LostDelete == [][StaleSaveRestoresDeleted]_vars

\* a delete of X was answered 200, a later create was answered 201, and the
\* file holds X
C27_Witness ==
    \E d \in DeletesDone : \E t \in Creates :
        /\ requests[t].status = 201
        /\ requests[t].item_id # requests[d].arg
        /\ HasKey(OnDisk, requests[d].arg)
        /\ HasKey(OnDisk, requests[t].item_id)

\* the mapping id -> item of the collection the backend holds, its keys as
\* strings
WholeMapping ==
    CASE program = "file" -> OnDisk
      [] program = "mock" ->
            [i \in 1..Len(_media) |->
                [key |-> <<Digits[_media[i].id + 1]>>, value |-> _media[i]]]
      [] program = "embedded" ->
            [i \in 1..Len(store) |-> [key |-> store[i].id, value |-> store[i]]]

\* media_data was loaded anew in this step
Reloaded ==
    /\ gui' # gui
    /\ gui'.status_var.text = "Loaded"
    /\ gui'.messagebox \in {"none", "Deleted"}

\* C28 (response normalization): what list_all hands to load_all is, for the
\* list of a mock (items with distinct ids), the mapping str(id) -> item
\* with one entry per item; for the mapping of backend.py, the same entries;
\* and the empty mapping for an empty response and for None.
C28_Normalized ==
    /\ [](/\ list_all(TRUE).value =
               (IF program = "file" /\ ~FileHoldsCollection
                THEN EmptyDict ELSE WholeMapping)
          /\ list_all(FALSE).value = EmptyDict)
    /\ [][Reloaded => gui'.media_data \in {EmptyDict, WholeMapping}]_vars

\* the client has loaded the four items of mock_backend.py after a create
C28_Witness ==
    /\ program = "mock"
    /\ gui.status_var.text = "Loaded"
    /\ Len(gui.media_data) = 4
    /\ gui.media_data = WholeMapping
    /\ gui.media_data[4].key = <<"4">>

\* C29 (unreachable backend is surfaced): when the backend cannot be
\* reached, list_all hands None to its caller, and load_all shows the
\* "Connection" error box and sets the status to Offline.
C29_UnreachableSurfaced ==
    /\ list_all(FALSE).kind = "null"
    /\ loaded(FALSE).status_var.text = "Offline"
    /\ loaded(FALSE).messagebox = "Connection"

\* C30 (NotFound on delete is distinguishable in the client): do_delete
\* puts the "Deleted" box on the screen only when the answer of the backend
\* to its delete request was a success, not a 404.
C30_DeletedOnlyWhenConfirmed ==
    [][(gui.messagebox # "Deleted" /\ gui'.messagebox = "Deleted") =>
          (last.op = "delete" /\ last.status = 200)]_vars

====
